---------------------------- MODULE Spec2Model ----------------------------
(***************************************************************************)
(* Exoplanet dashboard: one top-to-bottom run of app.py (acquisition via    *)
(* nasa_api.fetch_exoplanets, sidebar filters, aggregates, AI summary).     *)
(*                                                                         *)
(* Number representation (fixed point, all values >= 0):                    *)
(*   disc_year            tenths of a year      (2010.5 is 20105)           *)
(*   pl_rade, pl_masse    hundredths            (1.01 is 101)               *)
(*   pl_orbsmax           hundredths of an AU   (0.5 AU is 50)              *)
(*   st_teff              kelvin                                            *)
(* A missing float (pandas NaN) is NaN; a missing string is NA.             *)
(***************************************************************************)
EXTENDS Integers, Sequences, FiniteSets, TLC

VARIABLES
    pc,          \* position of the script run
    keyPresent,  \* whether GROQ_API_KEY is set in the environment
    response,    \* what the NASA TAP service answers to the one HTTP call
    df,          \* the acquired DataFrame (app.py:43)
    fault,       \* the exception that ended the run, "" if none
    errorShown,  \* st.error displayed (app.py:46)
    ran,         \* the sections of the script executed so far in this run
    criteria,    \* the sidebar widget values (app.py:56-68)
    filtered,    \* app.py:77-98
    timeline,    \* app.py:118-122
    hab_df,      \* app.py:200-202
    in_hz,       \* app.py:204-209
    out_hz,      \* app.py:210
    hzstats,     \* total, hz_count, pct (app.py:250-252)
    top,         \* app.py:266
    stats,       \* app.py:286-295
    summary_target, \* the selectbox of the summary section (app.py:278-281)
    summary,     \* what get_ai_summary returned (app.py:298)
    llmCalls     \* number of calls made to the Groq completion endpoint

vars == <<pc, keyPresent, response, df, fault, errorShown, ran, criteria,
          filtered, timeline, hab_df, in_hz, out_hz, hzstats, top, stats,
          summary_target, summary, llmCalls>>

---------------------------------------------------------------------------
(* Bounds of the model *)

\* rows in the CSV body of a response
MaxRows == 2
\* rows of the in-zone frame handed to the top-candidates view
MaxTopRows == 6
\* rows of the frame handed to the summary statistics
MaxStatRows == 4

---------------------------------------------------------------------------
(* Program constants *)

\* 0.5 AU
HZ_DIST_MIN == 50
\* 2.0 AU
HZ_DIST_MAX == 200
HZ_TEFF_MIN == 3700
HZ_TEFF_MAX == 7200
PLOT_TEFF_MIN == 2000
PLOT_TEFF_MAX == 12000
\* 10 AU
PLOT_DIST_LIMIT == 1000
TOP_N == 5
TOP_METHODS == 3

\* pandas NaN: a missing numeric value
NaN == -1
\* pandas NaN in a string column (an empty CSV cell)
NA == ""

---------------------------------------------------------------------------
(* CSV cells as the service sends them *)

Num(v) == [k |-> "num", v |-> v]
\* a cell whose text is no number
Text == [k |-> "text", v |-> 0]
\* an empty cell
Empty == [k |-> "empty", v |-> 0]

RawRow(name, method, year, rade, masse, orbsmax, teff) ==
    [pl_name |-> name, discoverymethod |-> method, disc_year |-> year,
     pl_rade |-> rade, pl_masse |-> masse, pl_orbsmax |-> orbsmax,
     st_teff |-> teff]

\* The rows a response body is drawn from: records inside the habitable zone
\* (Kepler-A) and on its edges (TOI-C, GJ-F), outside it (HD-B), on the edge of
\* the plottable subset (WASP-D), without a distance (K2-E) or a temperature
\* (LHS-G), a fractional year and an unparsable mass (HD-B), a missing method
\* (TOI-C), and three rows that lack a required field.
Catalog ==
    { RawRow("Kepler-A", "Transit", Num(20100), Num(100), Num(100), Num(100), Num(5800)),
      RawRow("HD-B", "Radial Velocity", Num(20105), Num(200), Text, Num(500), Num(9000)),
      RawRow("TOI-C", NA, Num(20100), Num(101), Empty, Num(50), Num(3700)),
      RawRow("WASP-D", "Transit", Num(20000), Num(1000), Num(30000), Num(1000), Num(12000)),
      RawRow("K2-E", "Transit", Num(20000), Num(100), Num(90), Empty, Num(5000)),
      RawRow("GJ-F", "Radial Velocity", Num(20000), Num(50), Num(40), Num(200), Num(7200)),
      RawRow("LHS-G", "Transit", Num(20100), Num(1000), Num(100), Num(201), Text),
      RawRow(NA, "Transit", Num(20100), Num(100), Num(100), Num(100), Num(5800)),
      RawRow("Bad-Y", "Imaging", Text, Num(100), Num(100), Num(100), Num(5800)),
      RawRow("Bad-R", "Transit", Num(20100), Empty, Num(100), Num(100), Num(5800)) }

SeqsUpTo(S, n) == UNION { [1..k -> S] : k \in 0..n }

ResponseKinds ==
    {"ConnectionError", "Timeout", "HTTPError", "ParserError", "MissingColumns", "OK"}

Responses ==
    { [kind |-> k, rows |-> <<>>] : k \in (ResponseKinds \ {"OK"}) }
    \cup { [kind |-> "OK", rows |-> rs] : rs \in SeqsUpTo(Catalog, MaxRows) }

---------------------------------------------------------------------------
(* nasa_api.py *)

\* pd.read_csv: one frame row per CSV row, labelled by a RangeIndex from 0
ReadCsv(rows) ==
    [i \in 1..Len(rows) |->
        [idx |-> i - 1,
         pl_name |-> rows[i].pl_name,
         discoverymethod |-> rows[i].discoverymethod,
         disc_year |-> rows[i].disc_year,
         pl_rade |-> rows[i].pl_rade,
         pl_masse |-> rows[i].pl_masse,
         pl_orbsmax |-> rows[i].pl_orbsmax,
         st_teff |-> rows[i].st_teff]]

\* pd.to_numeric(..., errors="coerce") on one cell
ToNumeric(cell) == IF cell.k = "num" THEN cell.v ELSE NaN

CoerceRow(r) ==
    [r EXCEPT !.disc_year = ToNumeric(r.disc_year),
              !.pl_rade = ToNumeric(r.pl_rade),
              !.pl_masse = ToNumeric(r.pl_masse),
              !.pl_orbsmax = ToNumeric(r.pl_orbsmax),
              !.st_teff = ToNumeric(r.st_teff)]

\* the subset of dropna: a row is kept iff none of the three is missing
RequiredPresentNoName(r) == r.disc_year # NaN /\ r.pl_rade # NaN
RequiredPresent(r) == r.pl_name # NA /\ r.disc_year # NaN /\ r.pl_rade # NaN

\* astype(int) on a non-negative float: truncation to whole years
AsTypeInt(v) == (v \div 10) * 10

Clean(frame) ==
    LET coerced == [i \in 1..Len(frame) |-> CoerceRow(frame[i])]
        kept == SelectSeq(coerced, RequiredPresent)
    IN  [i \in 1..Len(kept) |-> [kept[i] EXCEPT !.disc_year = AsTypeInt(@)]]

\* What one call of fetch_exoplanets() does with the service's answer: the
\* try block covers requests.get, raise_for_status and read_csv only.
fetch_exoplanets(resp) ==
    CASE resp.kind \in {"ConnectionError", "Timeout", "HTTPError", "ParserError"} ->
            [raised |-> "", frame |-> <<>>]
      [] resp.kind = "MissingColumns" ->
            [raised |-> "KeyError", frame |-> <<>>]
      [] OTHER ->
            [raised |-> "", frame |-> Clean(ReadCsv(resp.rows))]

---------------------------------------------------------------------------
(* app.py: sidebar widgets *)

Range(f) == { f[i] : i \in DOMAIN f }

\* app.py:55  the selectbox options
Methods(frame) ==
    {"All"} \cup ({ frame[i].discoverymethod : i \in DOMAIN frame } \ {NA})

\* year slider positions offered to the user (tenths of a year)
YearChoices == {20000, 20100}
\* radius slider positions offered to the user (hundredths)
RadiusChoices == {0, 100, 1000}

Ranges(S) == { p \in S \X S : p[1] <= p[2] }

NoCriteria ==
    [selected_method |-> "All", year_range |-> <<0, 0>>,
     radius_range |-> <<0, 0>>, habitable_only |-> FALSE]

---------------------------------------------------------------------------
(* app.py: apply filters *)

\* float comparisons: any comparison with NaN is False
Ge(x, c) == x # NaN /\ x >= c
Le(x, c) == x # NaN /\ x <= c
Lt(x, c) == x # NaN /\ x < c

\* app.py:80  (NaN == "Transit" is False)
MethodMask(r, m) == r.discoverymethod # NA /\ r.discoverymethod = m

\* app.py:83-84
YearMaskExclusive(r, yr) == Ge(r.disc_year, yr[1]) /\ Lt(r.disc_year, yr[2])
YearMask(r, yr) == Ge(r.disc_year, yr[1]) /\ Le(r.disc_year, yr[2])

\* app.py:88-89
RadiusMask(r, rr) == Ge(r.pl_rade, rr[1]) /\ Le(r.pl_rade, rr[2])

\* app.py:94-97
HabitableMask(r) ==
    /\ Ge(r.pl_orbsmax, HZ_DIST_MIN)
    /\ Le(r.pl_orbsmax, HZ_DIST_MAX)
    /\ Ge(r.st_teff, HZ_TEFF_MIN)
    /\ Le(r.st_teff, HZ_TEFF_MAX)

\* app.py:77-98
ApplyFilters(frame, c) ==
    LET f1 == IF c.selected_method # "All"
              THEN SelectSeq(frame, LAMBDA r : MethodMask(r, c.selected_method))
              ELSE frame
        f2 == SelectSeq(f1, LAMBDA r : YearMask(r, c.year_range))
        f3 == SelectSeq(f2, LAMBDA r : RadiusMask(r, c.radius_range))
    IN  IF c.habitable_only THEN SelectSeq(f3, HabitableMask) ELSE f3

---------------------------------------------------------------------------
(* app.py: timeline *)

\* groupby([...]) with pandas' default dropna=True: a row whose key holds a
\* missing value belongs to no group
GroupKeys(frame) ==
    { <<frame[i].disc_year, frame[i].discoverymethod>> :
        i \in { j \in DOMAIN frame :
                  frame[j].disc_year # NaN /\ frame[j].discoverymethod # NA } }

\* .size().reset_index(name="count"): one row per group
Timeline(frame) ==
    { [disc_year |-> k[1], discoverymethod |-> k[2],
       count |-> Cardinality({ i \in DOMAIN frame :
                    <<frame[i].disc_year, frame[i].discoverymethod>> = k })] :
      k \in GroupKeys(frame) }

---------------------------------------------------------------------------
(* app.py: habitable zone map *)

\* Series.between(lo, hi), inclusive on both sides
Between(x, lo, hi) == Ge(x, lo) /\ Le(x, hi)

\* app.py:200-202
PlottableInclusiveDist(r) ==
    /\ r.pl_orbsmax # NaN /\ r.st_teff # NaN /\ r.pl_rade # NaN
    /\ Between(r.st_teff, PLOT_TEFF_MIN, PLOT_TEFF_MAX)
    /\ Le(r.pl_orbsmax, PLOT_DIST_LIMIT)
Plottable(r) ==
    /\ r.pl_orbsmax # NaN /\ r.st_teff # NaN /\ r.pl_rade # NaN
    /\ Between(r.st_teff, PLOT_TEFF_MIN, PLOT_TEFF_MAX)
    /\ Lt(r.pl_orbsmax, PLOT_DIST_LIMIT)

HabDf(frame) == SelectSeq(frame, Plottable)

\* app.py:204-209
InZoneMaskStrict(r) ==
    /\ r.pl_orbsmax # NaN /\ r.pl_orbsmax > HZ_DIST_MIN
    /\ Le(r.pl_orbsmax, HZ_DIST_MAX)
    /\ Ge(r.st_teff, HZ_TEFF_MIN)
    /\ Le(r.st_teff, HZ_TEFF_MAX)
InZoneMask(r) ==
    /\ Ge(r.pl_orbsmax, HZ_DIST_MIN)
    /\ Le(r.pl_orbsmax, HZ_DIST_MAX)
    /\ Ge(r.st_teff, HZ_TEFF_MIN)
    /\ Le(r.st_teff, HZ_TEFF_MAX)

InHz(hab) == SelectSeq(hab, InZoneMask)

\* app.py:210  hab_df[~hab_df.index.isin(in_hz.index)]
Index(frame) == { frame[i].idx : i \in DOMAIN frame }
OutHz(hab, inz) == SelectSeq(hab, LAMBDA r : r.idx \notin Index(inz))

\* app.py:250-252  pct as the exact fraction num/den
HzStats(hab, inz) ==
    LET total == Len(hab)
        hz_count == Len(inz)
    IN  [total |-> total, hz_count |-> hz_count,
         pct |-> IF total > 0 THEN [num |-> hz_count * 100, den |-> total]
                 ELSE [num |-> 0, den |-> 1]]

NoHzStats == [total |-> 0, hz_count |-> 0, pct |-> [num |-> 0, den |-> 1]]

---------------------------------------------------------------------------
(* app.py: top habitable-zone candidates *)

Min(a, b) == IF a <= b THEN a ELSE b

\* a stable ascending sort on pl_rade (pandas sorts the selected rows with a
\* mergesort): r goes after every row whose radius is not larger
RECURSIVE InsertStable(_, _)
InsertStable(s, r) ==
    IF s = <<>> THEN <<r>>
    ELSE IF Head(s).pl_rade <= r.pl_rade
         THEN <<Head(s)>> \o InsertStable(Tail(s), r)
         ELSE <<r>> \o s

RECURSIVE SortByRadius(_)
SortByRadius(frame) ==
    IF frame = <<>> THEN <<>>
    ELSE InsertStable(SortByRadius(SubSeq(frame, 1, Len(frame) - 1)),
                      frame[Len(frame)])

\* DataFrame.nsmallest(n, "pl_rade"), keep="first"
NSmallestHead(n, frame) == SubSeq(frame, 1, Min(n, Len(frame)))
NSmallest(n, frame) ==
    LET present == SelectSeq(frame, LAMBDA r : r.pl_rade # NaN)
        sorted == SortByRadius(present)
    IN  SubSeq(sorted, 1, Min(n, Len(sorted)))

\* app.py:263-267  the three displayed columns, renamed; the index is kept
TopCandidates(inz) ==
    IF inz # <<>>
    THEN LET t == NSmallest(TOP_N, inz)
         IN  [i \in 1..Len(t) |->
                [idx |-> t[i].idx, Planet |-> t[i].pl_name,
                 Radius |-> t[i].pl_rade, Distance |-> t[i].pl_orbsmax]]
    ELSE <<>>

---------------------------------------------------------------------------
(* app.py: summary statistics *)

Column(frame, col) == [i \in DOMAIN frame |-> frame[i][col]]

\* Series.isna().all(): True for the empty Series
IsNaAll(s) == \A i \in DOMAIN s : s[i] = NaN

RECURSIVE SumSeq(_)
SumSeq(s) == IF s = <<>> THEN 0 ELSE Head(s) + SumSeq(Tail(s))

\* round(Series.mean(), 2): the mean of the non-missing values, to the nearest
\* hundredth. The mean is a binary float, so a mean that lies half way between
\* two hundredths goes to either of them.
MeanRounded(s) ==
    LET vals == SelectSeq(s, LAMBDA x : x # NaN)
        n == Len(vals)
        t == SumSeq(vals)
        q == t \div n
        r == t % n
    IN  IF 2 * r < n THEN {q}
        ELSE IF 2 * r > n THEN {q + 1}
        ELSE {q, q + 1}

Unavailable == [kind |-> "N/A", val |-> 0]

\* app.py:290-291
AverageAnyMissing(s) ==
    IF s # <<>> /\ \A i \in DOMAIN s : s[i] # NaN
    THEN { [kind |-> "num", val |-> v] : v \in MeanRounded(s) }
    ELSE {Unavailable}
Average(s) ==
    IF ~IsNaAll(s)
    THEN { [kind |-> "num", val |-> v] : v \in MeanRounded(s) }
    ELSE {Unavailable}

\* Series.value_counts(): the count of each non-missing value
CountOf(frame, m) == Cardinality({ i \in DOMAIN frame : frame[i].discoverymethod = m })
Present(frame) == { frame[i].discoverymethod : i \in DOMAIN frame } \ {NA}

\* value_counts().head(3).to_dict(): the three most frequent methods; which
\* of several equally frequent ones come first is the sort's choice
TopMethods(frame) ==
    { [m \in S |-> CountOf(frame, m)] :
        S \in { T \in SUBSET Present(frame) :
                  /\ Cardinality(T) = Min(TOP_METHODS, Cardinality(Present(frame)))
                  /\ \A a \in T, b \in Present(frame) \ T :
                        CountOf(frame, a) >= CountOf(frame, b) } }

NoStats ==
    [total_planets |-> 0, year_range |-> <<0, 0>>, top_methods |-> <<>>,
     avg_radius |-> Unavailable, avg_distance |-> Unavailable,
     habitable_zone_count |-> 0, filter_method |-> "All",
     habitable_only |-> FALSE]

SummaryTargets == {"All filtered results", "Habitable zone candidates only"}

\* app.py:286-295  every stats record the button handler can assemble
StatsOf(target_df, inz, c) ==
    { [total_planets |-> Len(target_df),
       year_range |-> c.year_range,
       top_methods |-> tm,
       avg_radius |-> ar,
       avg_distance |-> ad,
       habitable_zone_count |-> Len(inz),
       filter_method |-> c.selected_method,
       habitable_only |-> c.habitable_only] :
      tm \in TopMethods(target_df),
      ar \in Average(Column(target_df, "pl_rade")),
      ad \in Average(Column(target_df, "pl_orbsmax")) }

---------------------------------------------------------------------------
(* ai_summary.py *)

\* how the chat completion call ends
LlmOutcomes == {"ok", "APIError"}

NoSummary == [kind |-> "none", text |-> ""]

\* get_ai_summary: the whole body is inside try/except Exception
get_ai_summary(st, outcome) ==
    IF outcome = "ok"
    THEN [kind |-> "text", text |-> "summary"]
    ELSE [kind |-> "error", text |-> "Could not generate AI summary"]

---------------------------------------------------------------------------
(* One run of the script *)

TypeDefaults ==
    /\ df = <<>>
    /\ fault = ""
    /\ errorShown = FALSE
    /\ ran = {}
    /\ criteria = NoCriteria
    /\ filtered = <<>>
    /\ timeline = {}
    /\ hab_df = <<>>
    /\ in_hz = <<>>
    /\ out_hz = <<>>
    /\ hzstats = NoHzStats
    /\ top = <<>>
    /\ stats = NoStats
    /\ summary_target = "All filtered results"
    /\ summary = NoSummary
    /\ llmCalls = 0

Init ==
    /\ pc = "import"
    /\ keyPresent \in BOOLEAN
    /\ response \in Responses
    /\ TypeDefaults

\* app.py:5-6 imports ai_summary, whose module body builds the Groq client
\* (ai_summary.py:7); the client's constructor raises without an API key.
Import ==
    /\ pc = "import"
    /\ IF keyPresent
       THEN pc' = "load" /\ fault' = fault
       ELSE pc' = "crashed" /\ fault' = "GroqError"
    /\ UNCHANGED <<keyPresent, response, df, errorShown, ran, criteria, filtered,
                   timeline, hab_df, in_hz, out_hz, hzstats, top, stats,
                   summary_target, summary, llmCalls>>

\* app.py:38-43
LoadData ==
    /\ pc = "load"
    /\ LET res == fetch_exoplanets(response)
       IN  IF res.raised # ""
           THEN pc' = "crashed" /\ fault' = res.raised /\ df' = df
           ELSE pc' = "check" /\ fault' = fault /\ df' = res.frame
    /\ UNCHANGED <<keyPresent, response, errorShown, ran, criteria, filtered,
                   timeline, hab_df, in_hz, out_hz, hzstats, top, stats,
                   summary_target, summary, llmCalls>>

\* app.py:45-47
CheckEmptyNever ==
    /\ pc = "check"
    /\ pc' = "sidebar" /\ errorShown' = errorShown
    /\ UNCHANGED <<keyPresent, response, df, fault, ran, criteria, filtered,
                   timeline, hab_df, in_hz, out_hz, hzstats, top, stats,
                   summary_target, summary, llmCalls>>
CheckEmpty ==
    /\ pc = "check"
    /\ IF df = <<>>
       THEN pc' = "stopped" /\ errorShown' = TRUE
       ELSE pc' = "sidebar" /\ errorShown' = errorShown
    /\ UNCHANGED <<keyPresent, response, df, fault, ran, criteria, filtered,
                   timeline, hab_df, in_hz, out_hz, hzstats, top, stats,
                   summary_target, summary, llmCalls>>

\* app.py:53-68  the widgets are built and return the user's selection
Sidebar ==
    /\ pc = "sidebar"
    /\ \E m \in Methods(df), yr \in Ranges(YearChoices),
          rr \in Ranges(RadiusChoices), h \in BOOLEAN :
          criteria' = [selected_method |-> m, year_range |-> yr,
                       radius_range |-> rr, habitable_only |-> h]
    /\ ran' = ran \cup {"sidebar"}
    /\ pc' = "filter"
    /\ UNCHANGED <<keyPresent, response, df, fault, errorShown, filtered,
                   timeline, hab_df, in_hz, out_hz, hzstats, top, stats,
                   summary_target, summary, llmCalls>>

\* app.py:77-98
Filter ==
    /\ pc = "filter"
    /\ filtered' = ApplyFilters(df, criteria)
    /\ ran' = ran \cup {"filter"}
    /\ pc' = "timeline"
    /\ UNCHANGED <<keyPresent, response, df, fault, errorShown, criteria,
                   timeline, hab_df, in_hz, out_hz, hzstats, top, stats,
                   summary_target, summary, llmCalls>>

\* app.py:118-122
TimelineChart ==
    /\ pc = "timeline"
    /\ timeline' = Timeline(filtered)
    /\ ran' = ran \cup {"timeline"}
    /\ pc' = "hz"
    /\ UNCHANGED <<keyPresent, response, df, fault, errorShown, criteria,
                   filtered, hab_df, in_hz, out_hz, hzstats, top, stats,
                   summary_target, summary, llmCalls>>

\* app.py:200-268
HabitableZone ==
    /\ pc = "hz"
    /\ hab_df' = HabDf(filtered)
    /\ in_hz' = InHz(hab_df')
    /\ out_hz' = OutHz(hab_df', in_hz')
    /\ hzstats' = HzStats(hab_df', in_hz')
    /\ top' = TopCandidates(in_hz')
    /\ ran' = ran \cup {"hz"}
    /\ pc' = "summary"
    /\ UNCHANGED <<keyPresent, response, df, fault, errorShown, criteria,
                   filtered, timeline, stats, summary_target, summary,
                   llmCalls>>

\* app.py:283-308  the button is pressed
GenerateSummary ==
    /\ pc = "summary"
    /\ \E target \in SummaryTargets, outcome \in LlmOutcomes :
          LET target_df == IF target = "Habitable zone candidates only"
                           THEN in_hz ELSE filtered
          IN  \E st \in StatsOf(target_df, in_hz, criteria) :
                 /\ summary_target' = target
                 /\ stats' = st
                 /\ summary' = get_ai_summary(st, outcome)
    /\ llmCalls' = llmCalls + 1
    /\ ran' = ran \cup {"summary"}
    /\ pc' = "done"
    /\ UNCHANGED <<keyPresent, response, df, fault, errorShown, criteria,
                   filtered, timeline, hab_df, in_hz, out_hz, hzstats, top>>

\* app.py:283  the button is not pressed
SkipSummary ==
    /\ pc = "summary"
    /\ \E target \in SummaryTargets : summary_target' = target
    /\ pc' = "done"
    /\ UNCHANGED <<keyPresent, response, df, fault, errorShown, ran, criteria,
                   filtered, timeline, hab_df, in_hz, out_hz, hzstats, top, stats,
                   summary, llmCalls>>

Next ==
    \/ Import
    \/ LoadData
    \/ CheckEmpty
    \/ Sidebar
    \/ Filter
    \/ TimelineChart
    \/ HabitableZone
    \/ GenerateSummary
    \/ SkipSummary

Spec == Init /\ [][Next]_vars

---------------------------------------------------------------------------
(* The aggregate views on larger frames: the run enters the habitable-zone  *)
(* section with a frame acquired and filtered by the code above.            *)

\* in-zone rows of two radii and a smaller planet outside the zone
TopCatalog ==
    { RawRow("Kepler-A", "Transit", Num(20100), Num(100), Num(100), Num(100), Num(5800)),
      RawRow("Kepler-B", "Transit", Num(20100), Num(200), Num(100), Num(150), Num(5800)),
      RawRow("HD-C", "Radial Velocity", Num(20100), Num(50), Num(100), Num(500), Num(9000)) }

\* four methods and a missing one, radii whose mean is no whole hundredth,
\* rows without an orbital distance
StatCatalog ==
    { RawRow("Kepler-A", "Transit", Num(20100), Num(100), Num(100), Num(100), Num(5800)),
      RawRow("HD-B", "Radial Velocity", Num(20100), Num(101), Text, Num(500), Num(9000)),
      RawRow("HR-C", "Imaging", Num(20100), Num(200), Num(100), Empty, Num(5000)),
      RawRow("OGLE-D", "Microlensing", Num(20100), Num(100), Num(100), Num(103), Text),
      RawRow("TOI-E", NA, Num(20100), Num(102), Empty, Empty, Num(3700)) }

\* the sliders wide open, no method selected
OpenCriteria ==
    [selected_method |-> "All", year_range |-> <<20000, 20100>>,
     radius_range |-> <<0, 1000>>, habitable_only |-> FALSE]

AtHabitableZone(rows) ==
    /\ pc = "hz"
    /\ keyPresent = TRUE
    /\ response = [kind |-> "OK", rows |-> rows]
    /\ df = fetch_exoplanets(response).frame
    /\ fault = ""
    /\ errorShown = FALSE
    /\ ran = {"sidebar", "filter", "timeline"}
    /\ criteria = OpenCriteria
    /\ filtered = ApplyFilters(df, criteria)
    /\ timeline = Timeline(filtered)
    /\ hab_df = <<>>
    /\ in_hz = <<>>
    /\ out_hz = <<>>
    /\ hzstats = NoHzStats
    /\ top = <<>>
    /\ stats = NoStats
    /\ summary_target = "All filtered results"
    /\ summary = NoSummary
    /\ llmCalls = 0

InitTop == \E rows \in SeqsUpTo(TopCatalog, MaxTopRows) \ {<<>>} : AtHabitableZone(rows)

InitStats == \E rows \in SeqsUpTo(StatCatalog, MaxStatRows) \ {<<>>} : AtHabitableZone(rows)

NextViews ==
    \/ HabitableZone
    \/ GenerateSummary
    \/ SkipSummary

SpecTop == InitTop /\ [][NextViews]_vars

SpecStats == InitStats /\ [][NextViews]_vars

---------------------------------------------------------------------------
(* Properties *)

\* the positions of a frame whose row satisfies P, and the number of them
\* before position j
Positions(frame, P(_)) == { j \in DOMAIN frame : P(frame[j]) }
Before(S, j) == Cardinality({ k \in S : k < j })

\* frame is exactly the rows of source at the positions S, in source order
IsSubframe(frame, source, S) ==
    /\ Len(frame) = Cardinality(S)
    /\ \A j \in S : frame[Before(S, j) + 1] = source[j]

\* the four predicates of the filter criteria c on a record r
SatisfiesCriteria(r, c) ==
    /\ c.selected_method = "All" \/ r.discoverymethod = c.selected_method
    /\ c.year_range[1] <= r.disc_year /\ r.disc_year <= c.year_range[2]
    /\ r.pl_rade # NaN
    /\ c.radius_range[1] <= r.pl_rade /\ r.pl_rade <= c.radius_range[2]
    /\ c.habitable_only =>
          /\ r.pl_orbsmax # NaN /\ 50 <= r.pl_orbsmax /\ r.pl_orbsmax <= 200
          /\ r.st_teff # NaN /\ 3700 <= r.st_teff /\ r.st_teff <= 7200

\* C1: once the filters are applied, the filtered frame holds exactly the
\* records of the acquired frame that satisfy all four predicates of the
\* criteria (none failing one is kept, none passing all is lost), in their
\* input order.
C1_FilterSoundCompleteStable ==
    "filter" \in ran =>
        IsSubframe(filtered, df,
                   Positions(df, LAMBDA r : SatisfiesCriteria(r, criteria)))

\* a two-row frame of which the habitable-only, single-method filter keeps
\* the second row only
C1_Witness ==
    /\ "filter" \in ran
    /\ criteria.habitable_only
    /\ criteria.selected_method # "All"
    /\ Len(df) = 2
    /\ filtered = <<df[2]>>

\* C2: whatever goes wrong with the network call or with handling the
\* response, fetch_exoplanets returns an empty frame and the run goes on to
\* the emptiness check without a fault.
C2_FetchNeverPropagates ==
    (keyPresent /\ response.kind # "OK" /\ pc \notin {"import", "load"}) =>
        (fault = "" /\ df = <<>>)

RECURSIVE SumCounts(_)
SumCounts(S) ==
    IF S = {} THEN 0
    ELSE LET x == CHOOSE y \in S : TRUE
         IN  x.count + SumCounts(S \ {x})

\* C3: the timeline's counts sum to the number of filtered records, and each
\* (year, method) pair of a filtered record, a missing method included, is
\* the key of exactly one timeline row.
C3_TimelineCountsSumToLen ==
    "timeline" \in ran =>
        /\ SumCounts(timeline) = Len(filtered)
        /\ \A i \in DOMAIN filtered :
              Cardinality({ t \in timeline :
                              /\ t.disc_year = filtered[i].disc_year
                              /\ t.discoverymethod = filtered[i].discoverymethod }) = 1

\* the plottable subset and the habitable-zone predicate, as stated
IsPlottable(r) ==
    /\ r.pl_orbsmax # NaN /\ r.st_teff # NaN /\ r.pl_rade # NaN
    /\ 2000 <= r.st_teff /\ r.st_teff <= 12000
    /\ r.pl_orbsmax < 1000
IsInZone(r) ==
    /\ r.pl_orbsmax # NaN /\ 50 <= r.pl_orbsmax /\ r.pl_orbsmax <= 200
    /\ r.st_teff # NaN /\ 3700 <= r.st_teff /\ r.st_teff <= 7200

\* C4: in_hz and out_hz are disjoint, together they are exactly the plottable
\* records of the filtered frame, in_hz holds exactly the plottable records
\* inside the zone, and len(in_hz) + len(out_hz) = len(hab_df).
C4_PartitionExact ==
    "hz" \in ran =>
        /\ IsSubframe(hab_df, filtered, Positions(filtered, IsPlottable))
        /\ IsSubframe(in_hz, filtered,
                      Positions(filtered, LAMBDA r : IsPlottable(r) /\ IsInZone(r)))
        /\ IsSubframe(out_hz, filtered,
                      Positions(filtered, LAMBDA r : IsPlottable(r) /\ ~IsInZone(r)))
        /\ Range(in_hz) \cap Range(out_hz) = {}
        /\ Range(in_hz) \cup Range(out_hz) = Range(hab_df)
        /\ Len(in_hz) + Len(out_hz) = Len(hab_df)

\* both sides of the partition are inhabited
C4_Witness ==
    /\ "hz" \in ran
    /\ in_hz # <<>>
    /\ out_hz # <<>>

\* the value a numeric cell is coerced to
Coerced(cell) == IF cell.k = "num" THEN cell.v ELSE NaN

\* C5: after a successful acquisition every record has a name, a year and a
\* radius, and the year is whole; the records are the CSV rows that have all
\* three, in order, with every unparsable numeric cell turned into a missing
\* value.
C5_AcquisitionInvariant ==
    (response.kind = "OK" /\ fault = "" /\ pc \notin {"import", "load"}) =>
        LET rows == response.rows
            ok == { j \in DOMAIN rows :
                      /\ rows[j].pl_name # NA
                      /\ rows[j].disc_year.k = "num"
                      /\ rows[j].pl_rade.k = "num" }
        IN  /\ \A i \in DOMAIN df :
                  /\ df[i].pl_name # NA
                  /\ df[i].disc_year # NaN
                  /\ df[i].pl_rade # NaN
                  /\ df[i].disc_year % 10 = 0
            /\ Len(df) = Cardinality(ok)
            /\ \A j \in ok :
                  LET r == df[Before(ok, j) + 1]
                  IN  /\ r.idx = j - 1
                      /\ r.pl_name = rows[j].pl_name
                      /\ r.discoverymethod = rows[j].discoverymethod
                      /\ r.disc_year <= rows[j].disc_year.v
                      /\ rows[j].disc_year.v < r.disc_year + 10
                      /\ r.pl_rade = rows[j].pl_rade.v
                      /\ r.pl_masse = Coerced(rows[j].pl_masse)
                      /\ r.pl_orbsmax = Coerced(rows[j].pl_orbsmax)
                      /\ r.st_teff = Coerced(rows[j].st_teff)

\* a row with an unparsable mass and a fractional year survives, with the
\* mass missing and the year truncated, next to a row that is dropped
C5_Witness ==
    /\ response.kind = "OK" /\ pc = "check"
    /\ Len(response.rows) = 2
    /\ Len(df) = 1
    /\ response.rows[df[1].idx + 1].pl_masse.k = "text"
    /\ df[1].pl_masse = NaN
    /\ df[1].disc_year < response.rows[df[1].idx + 1].disc_year.v

\* the position in in_hz of a row of the top-candidates table
PosInHz(t) == CHOOSE p \in DOMAIN in_hz : in_hz[p].idx = t.idx

C7_SummaryFailureNeverFaults ==
    /\ fault # "GroqError"
    /\ ~keyPresent => pc # "crashed"
    /\ "summary" \in ran => summary.kind \in {"text", "error"}

\* the frame the summary is about
TargetFrame ==
    IF summary_target = "Habitable zone candidates only" THEN in_hz ELSE filtered

NonMissing(s) == SelectSeq(s, LAMBDA x : x # NaN)

\* avg is the unavailable sentinel exactly when s has no value, and else a
\* number within half a hundredth of the mean of the values of s
IsRoundedMean(avg, s) ==
    LET vals == NonMissing(s)
        d == avg.val * Len(vals) - SumSeq(vals)
    IN  /\ avg = Unavailable <=> vals = <<>>
        /\ avg # Unavailable =>
              /\ avg.kind = "num"
              /\ 2 * d <= Len(vals) /\ 2 * (0 - d) <= Len(vals)

\* avg is the unavailable sentinel exactly when s has no value, and else the
\* mean of the values of s
IsExactMean(avg, s) ==
    LET vals == NonMissing(s)
    IN  /\ avg = Unavailable <=> vals = <<>>
        /\ avg # Unavailable =>
              /\ avg.kind = "num"
              /\ avg.val * Len(vals) = SumSeq(vals)

\* count, top_methods and the percentage of the statistics
StatsCountsRight ==
    /\ fault = ""
    /\ "hz" \in ran =>
          /\ hzstats.pct.den # 0
          /\ hab_df = <<>> => hzstats.pct.num = 0
    /\ "summary" \in ran =>
          /\ stats.total_planets = Len(TargetFrame)
          /\ Cardinality(DOMAIN stats.top_methods) <= 3
          /\ \A m \in DOMAIN stats.top_methods :
                /\ m # NA
                /\ stats.top_methods[m] > 0
                /\ stats.top_methods[m] =
                      Cardinality({ i \in DOMAIN TargetFrame :
                                      TargetFrame[i].discoverymethod = m })
          /\ TargetFrame = <<>> => DOMAIN stats.top_methods = {}

\* C8 (as amended): assembling the statistics never raises; count is the
\* length of the target; each average is "N/A" exactly when the target is
\* empty or holds no value of the field, and else the mean of the values
\* rounded to two decimals; top_methods maps at most 3 methods to their
\* counts and is empty for an empty target; the percentage is 0 when the
\* plottable subset is empty.
C8_StatsRoundedMean ==
    /\ StatsCountsRight
    /\ "summary" \in ran =>
          /\ IsRoundedMean(stats.avg_radius, Column(TargetFrame, "pl_rade"))
          /\ IsRoundedMean(stats.avg_distance, Column(TargetFrame, "pl_orbsmax"))

\* C8 (as claimed): the same, with each average the mean itself.
C8_StatsExactMean ==
    /\ StatsCountsRight
    /\ "summary" \in ran =>
          /\ IsExactMean(stats.avg_radius, Column(TargetFrame, "pl_rade"))
          /\ IsExactMean(stats.avg_distance, Column(TargetFrame, "pl_orbsmax"))

\* the summary of an empty in-zone frame, the plottable subset empty too,
\* while the filtered frame has four methods
C8_Witness ==
    /\ "summary" \in ran
    /\ TargetFrame = <<>>
    /\ stats.total_planets = 0
    /\ stats.avg_radius = Unavailable
    /\ stats.avg_distance = Unavailable
    /\ hab_df = <<>>
    /\ filtered # <<>>

\* C9: a run whose acquisition yields an empty frame shows the error and
\* stops with no section of the script below the check executed and no call
\* to the summary service; a section below the check only ever runs with a
\* non-empty acquired frame.
C9_EmptyAcquisitionHalts ==
    /\ (df = <<>> /\ pc \notin {"import", "load", "check", "crashed"}) =>
          /\ pc = "stopped"
          /\ errorShown
    /\ pc = "stopped" => df = <<>>
    /\ df = <<>> =>
          /\ ran = {}
          /\ llmCalls = 0
          /\ criteria = NoCriteria
          /\ filtered = <<>> /\ timeline = {} /\ hab_df = <<>>
          /\ stats = NoStats /\ summary = NoSummary
    /\ (ran # {} \/ llmCalls > 0) => (df # <<>> /\ ~errorShown)

\* the service answered with rows, none of which survived the cleaning
C9_Witness ==
    /\ pc = "stopped"
    /\ errorShown
    /\ response.kind = "OK"
    /\ response.rows # <<>>

\* C10: with the habitable-only flag set, in_hz is the filtered frame, out_hz
\* is empty, the habitable-zone count is the total count and the percentage
\* is 100 for a non-empty result.
C10_HabitableOnlyAllInZone ==
    (criteria.habitable_only /\ "hz" \in ran) =>
        /\ hab_df = filtered
        /\ in_hz = filtered
        /\ out_hz = <<>>
        /\ hzstats.hz_count = Len(filtered)
        /\ hzstats.total = Len(filtered)
        /\ filtered # <<>> => hzstats.pct.num = 100 * hzstats.pct.den
        /\ "summary" \in ran => stats.habitable_zone_count = stats.total_planets

\* a habitable-only summary of a frame the filter cut down to one record on
\* the inner edge of the zone
C10_Witness ==
    /\ criteria.habitable_only
    /\ "summary" \in ran
    /\ Len(filtered) = 1
    /\ Len(df) = 2
    /\ filtered[1].pl_orbsmax = 50
    /\ stats.total_planets = 1

=============================================================================
